---- MODULE Spec2Model ----
(***************************************************************************)
(* Model of cocotb/generators/opra_binary_payload_generators.py: the       *)
(* generator from_pcap(fname, npackets), driven by callers that issue      *)
(* next() and close() on generator objects created for one capture file.   *)
(*                                                                         *)
(* A frame of the capture is described by what the expression              *)
(* p["UDP"].payload of line 54 does on it:                                 *)
(*   "UDP"            it evaluates to a payload, which is yielded;         *)
(*   "AttributeError" it raises AttributeError, caught on line 56;         *)
(*   "IndexError"     it raises another exception (scapy's __getitem__     *)
(*                    raises IndexError for a layer that is not present),  *)
(*                    which line 56 does not catch.                        *)
(***************************************************************************)
EXTENDS Integers, Sequences, FiniteSets, TLC

\* ---- bounds of the model ----
MaxFrames == 4
MaxN == 2
MaxPayload == 2
NumEnvs == 2
MaxPasses == 2

Gens == {"g1", "g2"}

Payloads == 1..MaxPayload

Frames ==
  [kind : {"UDP"}, payload : Payloads]
    \cup [kind : {"AttributeError", "IndexError"}, payload : {0}]

RECURSIVE SeqsUpTo(_, _)
SeqsUpTo(S, n) ==
  IF n = 0 THEN {<<>>}
  ELSE LET shorter == SeqsUpTo(S, n - 1)
       IN shorter \cup {Append(s, x) : s \in {t \in shorter : Len(t) = n - 1}, x \in S}

Captures == SeqsUpTo(Frames, MaxFrames)

VARIABLES
  fileStatus,  \* what open(fname) / Reader(f) find at the path
  capture,     \* the records of the capture file, in file order
  npackets,    \* the caller-supplied maximum
  gi_state,    \* per generator: "created", "suspended" (at the yield), "finished"
  exit,        \* per generator: how the body was left
  err,         \* per generator: the exception that reached the caller
  sent,        \* per generator: local variable sent
  index,       \* per generator: records taken from pcap so far
  f,           \* per generator: the file handle: "none", "open", "closed"
  emitted,     \* per generator: payloads handed to the caller, in order
  last,        \* per generator: what the latest call gave its caller
  reads,       \* per generator: records taken from pcap by the latest next()
  decodes,     \* per generator: Ether(packet) calls made by the latest next()
  opens,       \* per generator: open(fname) calls made so far
  nexts        \* per generator: next() calls that ran the body

pcapVars == <<fileStatus, capture, npackets, gi_state, exit, err, sent, index, f,
              emitted, last, reads, decodes, opens, nexts>>

\* .github/generate-envs.py
VARIABLES
  ENVS,        \* the module-level list of environment dicts
  group,       \* args.group: "None" when the option is not given
  passes,      \* runs of the runs-on loop of main over ENVS so far
  firstRunsOn  \* the "runs-on" entries as the first run of the loop left them

envVars == <<ENVS, group, passes, firstRunsOn>>

vars == <<pcapVars, envVars>>

\* no generate-envs run is part of the state
EnvIdle ==
  /\ ENVS = <<>>
  /\ group = "None"
  /\ passes = 0
  /\ firstRunsOn = <<>>

\* open(fname, 'r') raises when the path cannot be opened (missing or unreadable)
OpenRaisesNever(status) == FALSE

OpenRaises(status) == status = "unopenable"

\* Reader(f) raises when the file does not start with a capture header
ReaderRaises(status) == status = "badformat"

\* leaving the with block closes the handle
WithExitLeak(h) == h

WithExit(h) == "closed"

\* enumerate(pcap): the record taken after i records have been taken
ReadFrameReversed(cap, i) == cap[Len(cap) - i]

ReadFrame(cap, i) == cap[i + 1]

\* enumerate(pcap): records taken once the record after the i-th is taken
TakenPrefetch(cap, i) == IF i + 2 <= Len(cap) THEN i + 2 ELSE i + 1

Taken(cap, i) == i + 1

\* the break of line 51 comes before Ether(packet) of line 52: the record
\* on which the loop breaks adds no decode attempt to the d made so far
BreakDecodesAfterEther(d) == d + 1

BreakDecodes(d) == d

\* the bound check of the loop
BoundReached(s, n) == s > n

\* str(p["UDP"].payload)
UDPPayload(packet) == packet.payload

\* The loop of lines 50-57, run from the point where i records have been
\* taken and sent = s, up to the next yield or to the end of the body.
RECURSIVE Scan(_, _, _, _)
Scan(cap, i, s, n) ==
  IF i = Len(cap)
  THEN [state |-> "finished", exit |-> "exhausted", err |-> "none",
        index |-> i, f |-> WithExit("open"), out |-> <<>>,
        decodes |-> 0, opens |-> 1]
  ELSE LET packet == ReadFrame(cap, i) IN
    IF BoundReached(s, n)
    THEN [state |-> "finished", exit |-> "bound", err |-> "none",
          index |-> Taken(cap, i), f |-> WithExit("open"), out |-> <<>>,
          decodes |-> BreakDecodes(0), opens |-> 1]
    ELSE CASE packet.kind = "UDP" ->
                [state |-> "suspended", exit |-> "none", err |-> "none",
                 index |-> Taken(cap, i), f |-> "open",
                 out |-> <<UDPPayload(packet)>>, decodes |-> 1, opens |-> 1]
           [] packet.kind = "AttributeError" ->
                LET r == Scan(cap, Taken(cap, i), s, n)
                IN [r EXCEPT !.decodes = @ + 1]
           [] OTHER ->
                [state |-> "finished", exit |-> "error", err |-> "decode",
                 index |-> Taken(cap, i), f |-> WithExit("open"), out |-> <<>>,
                 decodes |-> 1, opens |-> 1]

\* The body from its first line up to the first yield or the end.
Start(status, cap, n) ==
  IF OpenRaises(status)
  THEN [state |-> "finished", exit |-> "error", err |-> "open",
        index |-> 0, f |-> "none", out |-> <<>>, decodes |-> 0, opens |-> 1]
  ELSE IF ReaderRaises(status)
  THEN [state |-> "finished", exit |-> "error", err |-> "format",
        index |-> 0, f |-> WithExit("open"), out |-> <<>>,
        decodes |-> 0, opens |-> 1]
  ELSE Scan(cap, 0, 0, n)

\* a from_pcap that would open the file when it is called
InitEager ==
  /\ fileStatus \in {"ok", "unopenable", "badformat"}
  /\ capture \in IF fileStatus = "badformat" THEN {<<>>} ELSE Captures
  /\ npackets \in 0..MaxN
  /\ gi_state = [g \in Gens |-> "created"]
  /\ exit = [g \in Gens |-> "none"]
  /\ err = [g \in Gens |-> "none"]
  /\ sent = [g \in Gens |-> 0]
  /\ index = [g \in Gens |-> 0]
  /\ f = [g \in Gens |-> IF OpenRaises(fileStatus) THEN "none" ELSE "open"]
  /\ emitted = [g \in Gens |-> <<>>]
  /\ last = [g \in Gens |-> "none"]
  /\ reads = [g \in Gens |-> 0]
  /\ decodes = [g \in Gens |-> 0]
  /\ opens = [g \in Gens |-> 1]
  /\ nexts = [g \in Gens |-> 0]
  /\ EnvIdle

\* Calling from_pcap runs no line of its body (it contains a yield): the
\* state after the calls that create the generators.
Init ==
  /\ fileStatus \in {"ok", "unopenable", "badformat"}
  /\ capture \in IF fileStatus = "badformat" THEN {<<>>} ELSE Captures
  /\ npackets \in 0..MaxN
  /\ gi_state = [g \in Gens |-> "created"]
  /\ exit = [g \in Gens |-> "none"]
  /\ err = [g \in Gens |-> "none"]
  /\ sent = [g \in Gens |-> 0]
  /\ index = [g \in Gens |-> 0]
  /\ f = [g \in Gens |-> "none"]
  /\ emitted = [g \in Gens |-> <<>>]
  /\ last = [g \in Gens |-> "none"]
  /\ reads = [g \in Gens |-> 0]
  /\ decodes = [g \in Gens |-> 0]
  /\ opens = [g \in Gens |-> 0]
  /\ nexts = [g \in Gens |-> 0]
  /\ EnvIdle

\* what a call that ran the body up to result r gives its caller
Outcome(r) ==
  IF r.state = "suspended" THEN "payload"
  ELSE IF r.err # "none" THEN "error"
  ELSE "StopIteration"

Apply(g, r, s) ==
  /\ gi_state' = [gi_state EXCEPT ![g] = r.state]
  /\ exit' = [exit EXCEPT ![g] = r.exit]
  /\ err' = [err EXCEPT ![g] = r.err]
  /\ sent' = [sent EXCEPT ![g] = s]
  /\ index' = [index EXCEPT ![g] = r.index]
  /\ f' = [f EXCEPT ![g] = r.f]
  /\ emitted' = [emitted EXCEPT ![g] = emitted[g] \o r.out]
  /\ last' = [last EXCEPT ![g] = Outcome(r)]
  /\ reads' = [reads EXCEPT ![g] = r.index - index[g]]
  /\ decodes' = [decodes EXCEPT ![g] = r.decodes]
  /\ opens' = [opens EXCEPT ![g] = IF gi_state[g] = "created" THEN r.opens ELSE @]
  /\ nexts' = [nexts EXCEPT ![g] = @ + 1]
  /\ UNCHANGED <<fileStatus, capture, npackets>>
  /\ UNCHANGED envVars

\* first next() on a generator: runs the body from the top
NextFirst(g) ==
  /\ gi_state[g] = "created"
  /\ Apply(g, Start(fileStatus, capture, npackets), 0)

\* next() that would read through a position shared by all generators
NextResumeSharedPos(g) ==
  /\ gi_state[g] = "suspended"
  /\ LET pos == CHOOSE i \in {index[h] : h \in Gens} :
                  \A h \in Gens : index[h] <= i
     IN Apply(g, Scan(capture, pos, sent[g] + 1, npackets), sent[g] + 1)

\* next() on a generator suspended at the yield: sent += 1, then the loop
NextResume(g) ==
  /\ gi_state[g] = "suspended"
  /\ Apply(g, Scan(capture, index[g], sent[g] + 1, npackets), sent[g] + 1)

\* close() that would not unwind the with block
CloseSuspendedNoUnwind(g) ==
  /\ gi_state[g] = "suspended"
  /\ gi_state' = [gi_state EXCEPT ![g] = "finished"]
  /\ exit' = [exit EXCEPT ![g] = "abandoned"]
  /\ last' = [last EXCEPT ![g] = "closed"]
  /\ UNCHANGED <<fileStatus, capture, npackets, err, sent, index, f, emitted,
                 reads, decodes, opens, nexts>>
  /\ UNCHANGED envVars

\* close() (or release of the last reference) on a generator suspended at
\* the yield: GeneratorExit is raised at the yield, is not an AttributeError,
\* and leaves the with block
CloseSuspended(g) ==
  /\ gi_state[g] = "suspended"
  /\ gi_state' = [gi_state EXCEPT ![g] = "finished"]
  /\ exit' = [exit EXCEPT ![g] = "abandoned"]
  /\ f' = [f EXCEPT ![g] = WithExit(f[g])]
  /\ last' = [last EXCEPT ![g] = "closed"]
  /\ UNCHANGED <<fileStatus, capture, npackets, err, sent, index, emitted,
                 reads, decodes, opens, nexts>>
  /\ UNCHANGED envVars

\* close() on a generator that was never started: the body never runs
CloseCreated(g) ==
  /\ gi_state[g] = "created"
  /\ gi_state' = [gi_state EXCEPT ![g] = "finished"]
  /\ exit' = [exit EXCEPT ![g] = "abandoned"]
  /\ last' = [last EXCEPT ![g] = "closed"]
  /\ UNCHANGED <<fileStatus, capture, npackets, err, sent, index, f, emitted,
                 reads, decodes, opens, nexts>>
  /\ UNCHANGED envVars

\* next() that would run the body again on a generator that has ended
NextFinishedRestart(g) ==
  /\ gi_state[g] = "finished"
  /\ Apply(g, Start(fileStatus, capture, npackets), 0)

\* next() on a generator that has ended (returned, raised or was closed):
\* StopIteration, and no line of the body runs
NextFinished(g) ==
  /\ gi_state[g] = "finished"
  /\ last' = [last EXCEPT ![g] = "StopIteration"]
  /\ UNCHANGED <<fileStatus, capture, npackets, gi_state, exit, err, sent, index,
                 f, emitted, reads, decodes, opens, nexts>>
  /\ UNCHANGED envVars

Next ==
  \E g \in Gens :
    \/ NextFirst(g)
    \/ NextResume(g)
    \/ NextFinished(g)
    \/ CloseSuspended(g)
    \/ CloseCreated(g)

Spec == Init /\ [][Next]_vars

\* a consumer that keeps issuing next requests while the sequence has not ended
FairSpec ==
  Spec /\ \A g \in Gens : WF_vars(NextFirst(g) \/ NextResume(g))

\* ---- .github/generate-envs.py: the runs-on loop of main ----

OSes == {"ubuntu-20.04", "windows-latest"}

Groups == {"ci", "experimental"}

\* the value of a "runs-on" key: absent, a string, or a list of strings
NoRunsOn == [kind |-> "absent", val |-> <<>>]

RunsOnStr(os) == [kind |-> "str", val |-> <<os>>]

RunsOnList(os) == [kind |-> "list", val |-> <<"self-hosted", "cocotb-private", os>>]

\* an entry of ENVS as the literal of lines 12-268 writes it: "os" always,
\* "group" and "self-hosted" optional, no "runs-on"
EnvDicts ==
  [os : OSes, group : Groups \cup {"absent"},
   selfHosted : {"absent", "True", "False"}, runsOn : {NoRunsOn}]

\* lines 283-287: the entries the loop visits
Selected(env, grp) ==
  IF grp # "None" /\ grp # ""
  THEN env.group # "absent" /\ env.group = grp
  ELSE TRUE

\* lines 293-296: the body of the loop on one entry
AssignRunsOn(env) ==
  IF env.selfHosted # "absent" /\ env.selfHosted = "True" /\ env.runsOn.kind = "absent"
  THEN [env EXCEPT !.runsOn = RunsOnList(env.os)]
  ELSE [env EXCEPT !.runsOn = RunsOnStr(env.os)]

\* lines 292-296: the loop, which assigns into the dicts of ENVS themselves
RunsOnPass(envs, grp) ==
  [i \in DOMAIN envs |->
     IF Selected(envs[i], grp) THEN AssignRunsOn(envs[i]) ELSE envs[i]]

PcapIdle ==
  /\ fileStatus = "badformat"
  /\ capture = <<>>
  /\ npackets = 0
  /\ gi_state = [g \in Gens |-> "created"]
  /\ exit = [g \in Gens |-> "none"]
  /\ err = [g \in Gens |-> "none"]
  /\ sent = [g \in Gens |-> 0]
  /\ index = [g \in Gens |-> 0]
  /\ f = [g \in Gens |-> "none"]
  /\ emitted = [g \in Gens |-> <<>>]
  /\ last = [g \in Gens |-> "none"]
  /\ reads = [g \in Gens |-> 0]
  /\ decodes = [g \in Gens |-> 0]
  /\ opens = [g \in Gens |-> 0]
  /\ nexts = [g \in Gens |-> 0]

EnvInit ==
  /\ ENVS \in [1..NumEnvs -> EnvDicts]
  /\ group \in {"None", ""} \cup Groups
  /\ passes = 0
  /\ firstRunsOn = [i \in 1..NumEnvs |-> NoRunsOn]
  /\ PcapIdle

\* one run of the runs-on loop of main with the same args.group
Main ==
  /\ passes < MaxPasses
  /\ ENVS' = RunsOnPass(ENVS, group)
  /\ passes' = passes + 1
  /\ firstRunsOn' = IF passes = 0
                      THEN [i \in DOMAIN ENVS |-> ENVS'[i].runsOn]
                      ELSE firstRunsOn
  /\ UNCHANGED <<group, pcapVars>>

EnvNext == Main

EnvSpec == EnvInit /\ [][EnvNext]_vars

TypeOK ==
  /\ capture \in Captures
  /\ npackets \in 0..MaxN
  /\ \A g \in Gens :
       /\ gi_state[g] \in {"created", "suspended", "finished"}
       /\ exit[g] \in {"none", "bound", "exhausted", "error", "abandoned"}
       /\ err[g] \in {"none", "open", "format", "decode"}
       /\ f[g] \in {"none", "open", "closed"}
       /\ index[g] \in 0..Len(capture)

\* ---- vocabulary of the properties ----

Min(a, b) == IF a <= b THEN a ELSE b

IsPrefix(s, t) == Len(s) <= Len(t) /\ s = SubSeq(t, 1, Len(s))

\* a frame matches the expected transport shape when it carries a UDP payload
Matching(packet) == packet.kind = "UDP"

\* payloads of the matching frames of cap, in capture order
RECURSIVE MatchingPayloads(_)
MatchingPayloads(cap) ==
  IF cap = <<>> THEN <<>>
  ELSE IF Matching(Head(cap))
       THEN <<Head(cap).payload>> \o MatchingPayloads(Tail(cap))
       ELSE MatchingPayloads(Tail(cap))

CountMatching(cap) == Len(MatchingPayloads(cap))

\* position in cap of its k-th matching frame (k >= 1, cap has at least k)
MatchPos(cap, k) ==
  CHOOSE i \in 1..Len(cap) :
    Matching(cap[i]) /\ CountMatching(SubSeq(cap, 1, i)) = k

\* the sequence ended by itself: by the bound or at the end of the capture
EndedNormally(g) == gi_state[g] = "finished" /\ exit[g] \in {"bound", "exhausted"}

\* ---- C1 ----
\* C1: in every reachable state the number of payloads yielded so far by an
\* extraction is at most the caller-supplied maximum npackets.
C1_EmittedAtMostN ==
  \A g \in Gens : Len(emitted[g]) <= npackets

\* ---- C2 ----
\* C2: when the sequence has ended by itself, the number of payloads emitted
\* equals min(npackets, number of matching frames of the capture).
C2_TotalIsMin ==
  \A g \in Gens :
    EndedNormally(g) => Len(emitted[g]) = Min(npackets, CountMatching(capture))

\* ---- C3 ----
\* C3: at every point the payloads emitted so far are a prefix of the payloads
\* of the matching frames in capture order, and while the extraction is
\* suspended at a yield they are exactly the payloads of the matching frames
\* among the frames read so far (none dropped, none repeated, none reordered).
C3_EmittedIsPrefix ==
  \A g \in Gens :
    /\ IsPrefix(emitted[g], MatchingPayloads(capture))
    /\ gi_state[g] = "suspended" =>
         emitted[g] = MatchingPayloads(SubSeq(capture, 1, index[g]))

\* two different payloads have been emitted and a frame was skipped on the way
C3_Witness ==
  \E g \in Gens :
    /\ Len(emitted[g]) >= 2
    /\ emitted[g][1] # emitted[g][2]
    /\ index[g] > Len(emitted[g])
    /\ fileStatus = "ok"

\* ---- C4 ----
\* C4: a frame that does not decode to a UDP payload is skipped: reading it
\* never raises to the caller and never ends the sequence, and a capture with
\* only such frames gives an empty sequence that ends without error.
C4_MismatchIsSkipped ==
  \A g \in Gens :
    /\ (index[g] > 0 /\ ~Matching(capture[index[g]]))
         => (err[g] = "none" /\ exit[g] # "error")
    /\ (CountMatching(capture) = 0 /\ gi_state[g] = "finished"
          /\ fileStatus = "ok" /\ exit[g] # "abandoned")
         => (exit[g] = "exhausted" /\ emitted[g] = <<>> /\ err[g] = "none")

\* ---- C5 ----
\* C5: in the state right after the N-th payload (N = npackets >= 1) has been
\* handed to the caller, the capture file is closed.
C5_ClosedAfterNth ==
  \A g \in Gens :
    (npackets >= 1 /\ Len(emitted[g]) = npackets) => f[g] = "closed"

\* ---- C6 ----
\* C6: when the capture holds at least N = npackets >= 1 matching frames, the
\* number of frames read never exceeds the position of the N-th matching one.
C6_NoOverRead ==
  \A g \in Gens :
    (npackets >= 1 /\ CountMatching(capture) >= npackets)
      => index[g] <= MatchPos(capture, npackets)

\* ---- C7 ----
\* C7: an extraction that has ended (bound reached, capture exhausted, error
\* raised, or closed by the caller) holds no open file handle, and one that
\* got past open() has its handle closed.
C7_TerminatedIsClosed ==
  \A g \in Gens :
    gi_state[g] = "finished" =>
      /\ f[g] # "open"
      /\ (exit[g] \in {"bound", "exhausted"} \/ err[g] \in {"format", "decode"})
           => f[g] = "closed"

\* an extraction stopped by the bound check, with its handle closed
C7_Witness ==
  \E g \in Gens : exit[g] = "bound" /\ f[g] = "closed" /\ index[g] < Len(capture)

\* ---- C8 ----
\* C8: the step in which the caller closes a sequence suspended at a yield is
\* the step in which its open file handle becomes closed.
C8_AbandonClosesNow ==
  [][\A g \in Gens :
       (gi_state[g] = "suspended" /\ exit'[g] = "abandoned")
         => (f[g] = "open" /\ f'[g] = "closed")]_vars

\* a sequence abandoned after at least one and fewer than npackets payloads
C8_Witness ==
  \E g \in Gens :
    /\ exit[g] = "abandoned"
    /\ Len(emitted[g]) >= 1
    /\ Len(emitted[g]) < npackets
    /\ f[g] = "closed"

\* ---- C9 ----
\* C9: on a path that cannot be opened, an extraction emits no payload, reads
\* no frame and holds no handle, and once asked for its first item it has
\* ended with the open error.
C9_OpenErrorIsImmediate ==
  \A g \in Gens :
    fileStatus = "unopenable" =>
      /\ emitted[g] = <<>>
      /\ index[g] = 0
      /\ f[g] = "none"
      /\ (gi_state[g] # "created" /\ exit[g] # "abandoned")
           => (gi_state[g] = "finished" /\ exit[g] = "error" /\ err[g] = "open")

\* the first next() on an unopenable path has raised the open error
C9_Witness ==
  \E g \in Gens : fileStatus = "unopenable" /\ err[g] = "open" /\ gi_state[g] = "finished"

\* ---- C10 ----
\* C10: an extraction that raised to its caller raised an open error, and did
\* so before any payload was emitted; no exception follows a payload and no
\* exception comes from decoding a frame.
C10_NoMidStreamException ==
  \A g \in Gens :
    err[g] # "none" => (err[g] \in {"open", "format"} /\ emitted[g] = <<>>)

\* ---- C11 ----
\* C11 as stated: a next request reads at most one frame and makes at most
\* one decode attempt, and one that hands over a payload has read exactly one.
C11_OneReadPerNext ==
  \A g \in Gens :
    /\ reads[g] <= 1
    /\ decodes[g] <= 1
    /\ gi_state[g] = "suspended" => reads[g] = 1

\* C11 as amended: a next request makes at most one decode attempt per frame
\* it reads. A request that hands over a payload has read the non-matching
\* frames it skipped and then the matching frame, with one decode attempt
\* each; one that raises a decode error has decoded every frame it read; one
\* that stops on the bound check has read one frame and decoded none.
C11_OneDecodePerRead ==
  \A g \in Gens :
    /\ decodes[g] <= reads[g]
    /\ reads[g] <= index[g]
    /\ gi_state[g] = "suspended" =>
         /\ reads[g] >= 1
         /\ decodes[g] = reads[g]
         /\ Matching(capture[index[g]])
         /\ \A i \in (index[g] - reads[g] + 1)..(index[g] - 1) :
              ~Matching(capture[i])
    /\ exit[g] = "bound" => (reads[g] = 1 /\ decodes[g] = 0)
    /\ exit[g] = "exhausted" => decodes[g] = reads[g]
    /\ err[g] = "decode" => (reads[g] >= 1 /\ decodes[g] = reads[g])

\* a next request skipped a frame before it handed over a payload, and
\* another one stopped on the bound check
C11_Witness ==
  \E g, h \in Gens :
    /\ gi_state[g] = "suspended" /\ reads[g] >= 2
    /\ exit[h] = "bound" /\ reads[h] = 1 /\ decodes[h] = 0

\* ---- C12 ----
\* what one extraction has done after k next requests when it runs alone
RECURSIVE RunAlone(_)
RunAlone(k) ==
  IF k = 0
  THEN [state |-> "created", index |-> 0, sent |-> 0, emitted |-> <<>>]
  ELSE LET p == RunAlone(k - 1)
           r == IF p.state = "created" THEN Start(fileStatus, capture, npackets)
                ELSE Scan(capture, p.index, p.sent + 1, npackets)
       IN IF p.state = "finished" THEN p
          ELSE [state |-> r.state, index |-> r.index,
                sent |-> IF p.state = "created" THEN 0 ELSE p.sent + 1,
                emitted |-> p.emitted \o r.out]

\* C12: with the next and close requests of two extractions on one path
\* interleaved in any order, each extraction has read and emitted exactly what
\* it would after the same number of next requests alone, and a step of one
\* leaves the other's handle, position, counter and emissions unchanged.
C12_Independent ==
  /\ [](\A g \in Gens :
          /\ emitted[g] = RunAlone(nexts[g]).emitted
          /\ index[g] = RunAlone(nexts[g]).index
          /\ gi_state[g] = "suspended" => f[g] = "open")
  /\ [][\A g, h \in Gens :
          (g # h /\ <<gi_state[g], last[g], nexts[g]>> # <<gi_state'[g], last'[g], nexts'[g]>>)
            => /\ f'[h] = f[h]
               /\ index'[h] = index[h]
               /\ sent'[h] = sent[h]
               /\ emitted'[h] = emitted[h]
               /\ gi_state'[h] = gi_state[h]]_vars

\* both extractions are under way, at different positions of the capture
C12_Witness ==
  \E g, h \in Gens :
    /\ gi_state[g] = "suspended" /\ gi_state[h] = "suspended"
    /\ 1 <= index[g] /\ index[g] < index[h]
    /\ Len(emitted[g]) < Len(emitted[h])

\* ---- C13 ----
\* C13: once a sequence instance has ended, no later step emits a payload,
\* reads a frame, opens or re-opens the file, or brings it back to life.
C13_SingleUse ==
  [][\A g \in Gens :
       gi_state[g] = "finished" =>
         /\ gi_state'[g] = "finished"
         /\ emitted'[g] = emitted[g]
         /\ index'[g] = index[g]
         /\ opens'[g] = opens[g]
         /\ f'[g] = f[g]]_vars

\* a next request was served on a sequence abandoned after a payload, and on
\* one that had ended by itself or by an error
C13_Witness ==
  \E g, h \in Gens :
    /\ exit[g] = "abandoned" /\ emitted[g] # <<>> /\ last[g] = "StopIteration"
    /\ exit[h] \in {"bound", "error"} /\ nexts[h] >= 1 /\ last[h] = "StopIteration"

\* ---- C14 ----
\* the terminal states of the extraction state machine
Terminal == {"bound", "exhausted", "error"}

\* the steps of one extraction that the state machine
\* Opened -> Scanning -> (Bounded-Stop | Exhausted | Error) -> Closed allows;
\* Scanning is the suspension at the yield with the file open, and a terminal
\* state and Closed are entered by the same next request
MachineStep(g) ==
  \/ gi_state[g] = "created" /\ gi_state'[g] = "suspended"
       /\ f[g] = "none" /\ f'[g] = "open"
  \/ gi_state[g] = "created" /\ gi_state'[g] = "finished"
       /\ exit'[g] \in Terminal /\ f'[g] # "open"
  \/ gi_state[g] = "suspended" /\ gi_state'[g] = "suspended"
       /\ f[g] = "open" /\ f'[g] = "open" /\ index'[g] > index[g]
  \/ gi_state[g] = "suspended" /\ gi_state'[g] = "finished"
       /\ exit'[g] \in Terminal /\ f[g] = "open" /\ f'[g] = "closed"
  \/ gi_state[g] = "finished" /\ gi_state'[g] = "finished"
       /\ exit'[g] = exit[g] /\ f'[g] = f[g]

\* a sequence that was never pulled is dropped: no file was opened
DropStep(g) ==
  /\ gi_state[g] = "created" /\ gi_state'[g] = "finished"
  /\ exit'[g] = "abandoned" /\ f'[g] = "none"

\* the caller closes a sequence that is Scanning: straight to Closed
AbandonStep(g) ==
  /\ gi_state[g] = "suspended" /\ gi_state'[g] = "finished"
  /\ exit'[g] = "abandoned" /\ f[g] = "open" /\ f'[g] = "closed"

Moved(g) ==
  <<gi_state[g], exit[g], f[g], index[g]>> # <<gi_state'[g], exit'[g], f'[g], index'[g]>>

\* C14 as stated: an extraction that has been started takes only steps of the
\* state machine Opened -> Scanning -> (Bounded-Stop | Exhausted | Error) ->
\* Closed, and no other.
C14_MachineOnly ==
  [][\A g \in Gens : Moved(g) => (MachineStep(g) \/ DropStep(g))]_vars

\* C14 as amended: an extraction takes only steps of that state machine or the
\* step Scanning -> Closed made when its caller closes it at a yield; it takes
\* at most one next request per frame of the capture plus one; and under a
\* consumer that keeps issuing next requests it ends with its file not open.
C14_MachineOrAbandon ==
  /\ [][\A g \in Gens :
          Moved(g) => (MachineStep(g) \/ DropStep(g) \/ AbandonStep(g))]_vars
  /\ [](\A g \in Gens : nexts[g] <= Len(capture) + 1)
  /\ \A g \in Gens : <>(gi_state[g] = "finished" /\ f[g] # "open")

\* one extraction was handed every frame of the capture and then took its
\* terminal step, the other was closed while Scanning
C14_Witness ==
  \E g, h \in Gens :
    /\ Len(capture) >= 2
    /\ exit[g] \in Terminal /\ nexts[g] = Len(capture) + 1 /\ f[g] = "closed"
    /\ exit[h] = "abandoned" /\ f[h] = "closed"

\* ---- C15 ----
\* C15: while an extraction is suspended after handing over a payload, the
\* frames read so far end with the frame of that payload: their number is the
\* position of the matching frame whose payload was emitted last.
C15_NoReadAhead ==
  \A g \in Gens :
    gi_state[g] = "suspended" =>
      /\ emitted[g] # <<>>
      /\ index[g] = MatchPos(capture, Len(emitted[g]))
      /\ emitted[g][Len(emitted[g])] = capture[index[g]].payload

\* suspended after the second payload with frames of the capture still unread
C15_Witness ==
  \E g \in Gens :
    /\ gi_state[g] = "suspended"
    /\ Len(emitted[g]) >= 2
    /\ index[g] < Len(capture)

\* ---- C16 ----
\* C16: a sequence that has not been asked for an item has opened no file,
\* holds no handle, has read no frame and has raised nothing, also when it is
\* dropped unpulled and also on a path that cannot be opened; the open error
\* of such a path belongs to the first next request.
C16_LazyOpen ==
  \A g \in Gens :
    /\ nexts[g] = 0 =>
         /\ opens[g] = 0
         /\ f[g] = "none"
         /\ index[g] = 0
         /\ err[g] = "none"
         /\ emitted[g] = <<>>
    /\ nexts[g] >= 1 => opens[g] = 1
    /\ err[g] = "open" => nexts[g] = 1

\* on an unopenable path one sequence has raised at its first next request
\* while the other, created by the same kind of call, is still untouched
C16_Witness ==
  \E g, h \in Gens :
    /\ fileStatus = "unopenable"
    /\ gi_state[g] = "created" /\ nexts[g] = 0 /\ err[g] = "none"
    /\ nexts[h] = 1 /\ err[h] = "open"

\* ---- C17 ----
\* C17: a second run of the runs-on loop over the same selected environments
\* leaves every environment with the runs-on value the first run gave it: the
\* list ["self-hosted", "cocotb-private", os] for a self-hosted environment
\* that was selected, os for every other selected one.
C17_PassIdempotent ==
  passes >= 2 =>
    \A i \in DOMAIN ENVS :
      /\ ENVS[i].runsOn = firstRunsOn[i]
      /\ Selected(ENVS[i], group) =>
           ENVS[i].runsOn = IF ENVS[i].selfHosted = "True"
                            THEN RunsOnList(ENVS[i].os)
                            ELSE RunsOnStr(ENVS[i].os)
====
